---- MODULE Spec2Model ----
(***************************************************************************)
(* Menu-bar popover controller of unscramm (src-tauri/src/lib.rs).         *)
(*                                                                         *)
(* run() registers a tray handler on the builder, then the setup closure   *)
(* wires the "main" window (workspace flag, focus handler, initial hide),  *)
(* then the event loop delivers tray and window events one at a time.      *)
(*                                                                         *)
(* The tray rectangle is taken in logical units, as the data model of the  *)
(* controller describes it, so to_physical multiplies by the scale factor.*)
(*                                                                         *)
(* Numbers.  Logical coordinates are whole numbers and the scale factor is *)
(* a whole number of quarters (4 = 1.0, 6 = 1.5), so every f64 value the   *)
(* handler computes is a small multiple of 1/8 and the f64 arithmetic is   *)
(* exact; it is modelled by integer arithmetic on numerators.              *)
(***************************************************************************)
EXTENDS Integers, Sequences, FiniteSets

VARIABLES
  pc,          \* "init" | "built" | "running" | "aborted": where run() is
  fatal,       \* why startup aborted: "none" | "log_plugin" | "no_window"
  macos,       \* cfg(target_os = "macos")
  debugBuild,  \* cfg!(debug_assertions)
  startupLog,  \* the calls made by the builder chain and the setup closure, in order
  win,         \* the "main" window as the toolkit holds it
  trayRect,    \* the tray icon's rectangle, carried by every tray event
  scale,       \* the window's scale factor, in quarters
  lastEvent,   \* the last callback delivered and what its handler did
  nEvents,     \* callbacks delivered so far
  clicks,      \* Left/Up clicks handled since startup or the last focus-lost event
  vstate,      \* the last show/hide command issued: "Unset" | "Hidden" | "Visible"
  hiddenAtStart, \* the window was hidden when setup returned
  faithful,    \* every hide/show so far took effect, every visibility query answered
  cmdFailed,   \* some window mutator has failed so far
  lastHid,     \* the last callback hid a visible, focused window: "click" | "focus" | "none"
  prevHid      \* the same, of the callback before the last

vars == <<pc, fatal, macos, debugBuild, startupLog, win, trayRect, scale,
          lastEvent, nEvents, clicks, vstate, hiddenAtStart, faithful, cmdFailed,
          lastHid, prevHid>>

----------------------------------------------------------------------------
(* Bounds *)

MaxEvents == 3
MaxCoord == 1
MaxSize == 1

(* Program constants *)

WindowWidth == 400
Gap == 8
DefaultScale == 4

I32Max == 2147483647

----------------------------------------------------------------------------
(* Inputs *)

\* scale factors 1.0, 1.25, 1.5, 2.0 in quarters
ScaleFactors == {4, 5, 6, 8}

Rect(x, y, w, h) == [x |-> x, y |-> y, w |-> w, h |-> h]

ExampleRects == {Rect(100, 50, 20, 20), Rect(10, 10, 30, 30), Rect(0, 0, 40, 40)}

\* every logical rectangle within the bounds, and the examples
Rects ==
  ExampleRects
    \cup {Rect(x, y, w, h) : x \in 0..MaxCoord, y \in 0..MaxCoord,
                             w \in 0..MaxSize, h \in 0..MaxSize}

Buttons == {"Left", "Right", "Middle"}
ButtonStates == {"Up", "Down"}

TrayEvent(kind, button, bstate) == [kind |-> kind, button |-> button, bstate |-> bstate]

TrayEvents ==
  {TrayEvent("Click", b, s) : b \in Buttons, s \in ButtonStates}
    \cup {TrayEvent("DoubleClick", "Left", "None"), TrayEvent("Move", "None", "None")}

WindowEvent(kind, focused) == [kind |-> kind, focused |-> focused]

WindowEvents ==
  {WindowEvent("Focused", f) : f \in BOOLEAN} \cup {WindowEvent("Moved", FALSE)}

Call(cmd, x, y, ok) == [cmd |-> cmd, x |-> x, y |-> y, ok |-> ok]

NoEvent ==
  [src |-> "none", kind |-> "None", button |-> "None", bstate |-> "None",
   focused |-> FALSE, resolved |-> FALSE, visQ |-> "none", scaleQ |-> "none",
   calls |-> <<>>]

----------------------------------------------------------------------------
(* Arithmetic *)

Max(a, b) == IF a >= b THEN a ELSE b
Min(a, b) == IF a <= b THEN a ELSE b

\* a rounding that sends halves upward: floor(v + 0.5)
F64RoundHalfUp(n, d) == (2 * n + d) \div (2 * d)

\* f64::round of n/d (d > 0): nearest integer, halves away from zero
F64Round(n, d) ==
  IF n >= 0 THEN (2 * n + d) \div (2 * d) ELSE -((2 * (-n) + d) \div (2 * d))

\* "as i32" / "as u32" of an integral float: saturating.  The upper limit of
\* u32 lies outside the integers of the model checker and far outside the
\* coordinates drawn, so only its lower limit is written out.
AsI32(v) == Max(-I32Max - 1, Min(I32Max, v))
AsU32(v) == Max(0, v)

----------------------------------------------------------------------------
(* The handlers' decisions, as the code computes them *)

\* a pattern that forgets the button state
IsLeftAnyState(event) == event.kind = "Click" /\ event.button = "Left"

\* lines 17-22: the pattern TrayIconEvent::Click { button: Left, button_state: Up, .. }
IsLeftUp(event) ==
  event.kind = "Click" /\ event.button = "Left" /\ event.bstate = "Up"

\* a query whose failure counts as visible: unwrap_or(true)
IsVisibleOrTrue(q) == q \in {"true", "err"}

\* line 25: window.is_visible().unwrap_or(false); q is "true", "false" or "err"
IsVisibleOr(q) == q = "true"

\* a fallback of 2.0 instead of 1.0
ScaleFactorOrTwo(q, sf) == IF q = "ok" THEN sf ELSE 8

\* line 33: window.scale_factor().unwrap_or(1.0)
ScaleFactorOr(q, sf) == IF q = "ok" THEN sf ELSE DefaultScale

\* a conversion that truncates instead of rounding
ToPhysicalI32Truncating(c, sf) == AsI32((c * sf) \div 4)

\* line 34: LogicalPosition::to_physical::<i32>: multiply, round to a pixel
ToPhysicalI32(c, sf) == AsI32(F64Round(c * sf, 4))

\* line 35: LogicalSize::to_physical::<u32>
ToPhysicalU32(c, sf) == AsU32(F64Round(c * sf, 4))

\* a target kept on screen: never left of pixel 0
TargetXClamped(rect, sf) ==
  Max(0, AsI32(F64Round(2 * ToPhysicalI32(rect.x, sf) + ToPhysicalU32(rect.w, sf)
                          - WindowWidth, 2)))

\* lines 37, 41: (pos.x + size.width / 2.0) - (window_width / 2.0), rounded
TargetX(rect, sf) ==
  AsI32(F64Round(2 * ToPhysicalI32(rect.x, sf) + ToPhysicalU32(rect.w, sf) - WindowWidth, 2))

\* lines 38, 42: pos.y + size.height + gap, rounded
TargetY(rect, sf) ==
  AsI32(F64Round(ToPhysicalI32(rect.y, sf) + ToPhysicalU32(rect.h, sf) + Gap, 1))

\* a hidden branch that shows before it positions
ShowCallsShowFirst(rect, sf, res) ==
  << Call("show", 0, 0, res[1]),
     Call("set_position", TargetX(rect, sf), TargetY(rect, sf), res[2]),
     Call("set_focus", 0, 0, res[3]) >>

\* a hidden branch that gives up at the first failed call (the ? operator)
ShowCallsStopOnError(rect, sf, res) ==
  << Call("set_position", TargetX(rect, sf), TargetY(rect, sf), res[1]) >>
  \o (IF ~res[1] THEN <<>>
      ELSE << Call("show", 0, 0, res[2]) >>
           \o (IF ~res[2] THEN <<>> ELSE << Call("set_focus", 0, 0, res[3]) >>))

\* lines 40-55: the hidden branch; res[i] is the result of the i-th call
ShowCalls(rect, sf, res) ==
  << Call("set_position", TargetX(rect, sf), TargetY(rect, sf), res[1]),
     Call("show", 0, 0, res[2]),
     Call("set_focus", 0, 0, res[3]) >>

\* a handler that lost its visible branch: every click shows
TrayHandlerCallsShowOnly(event, resolved, visQ, scaleQ, rect, sf, res) ==
  IF ~IsLeftUp(event) THEN <<>>
  ELSE IF ~resolved THEN <<>>
  ELSE ShowCalls(rect, ScaleFactorOr(scaleQ, sf), res)

\* a handler that goes on without its window (unwrap instead of if let Some)
TrayHandlerCallsUnresolved(event, resolved, visQ, scaleQ, rect, sf, res) ==
  IF ~IsLeftUp(event) THEN <<>>
  ELSE IF IsVisibleOr(visQ) THEN << Call("hide", 0, 0, res[1]) >>
  ELSE ShowCalls(rect, ScaleFactorOr(scaleQ, sf), res)

\* a handler whose visible branch moves the window before hiding it
TrayHandlerCallsMoveThenHide(event, resolved, visQ, scaleQ, rect, sf, res) ==
  IF ~IsLeftUp(event) THEN <<>>
  ELSE IF ~resolved THEN <<>>
  ELSE IF IsVisibleOr(visQ)
       THEN << Call("set_position", TargetX(rect, sf), TargetY(rect, sf), res[1]),
               Call("hide", 0, 0, res[2]) >>
  ELSE ShowCalls(rect, ScaleFactorOr(scaleQ, sf), res)

\* a handler that toggles a boolean of its own instead of asking the window
TrayHandlerCallsShadow(event, resolved, visQ, scaleQ, rect, sf, res) ==
  IF ~IsLeftUp(event) THEN <<>>
  ELSE IF ~resolved THEN <<>>
  ELSE IF vstate = "Visible" THEN << Call("hide", 0, 0, res[1]) >>
  ELSE ShowCalls(rect, ScaleFactorOr(scaleQ, sf), res)

\* lines 16-59: the calls the tray handler makes for one event
TrayHandlerCalls(event, resolved, visQ, scaleQ, rect, sf, res) ==
  IF ~IsLeftUp(event) THEN <<>>
  ELSE IF ~resolved THEN <<>>
  ELSE IF IsVisibleOr(visQ) THEN << Call("hide", 0, 0, res[1]) >>
  ELSE ShowCalls(rect, ScaleFactorOr(scaleQ, sf), res)

\* a handler that hides only a window it believes visible
FocusHandlerCallsIfVisible(event, w, ok) ==
  IF event.kind = "Focused" /\ ~event.focused /\ w.visible
  THEN << Call("hide", 0, 0, ok) >>
  ELSE <<>>

\* a handler that toggles on focus loss: hides a visible window, shows a hidden one
FocusHandlerCallsToggle(event, w, ok) ==
  IF event.kind = "Focused" /\ ~event.focused
  THEN << Call(IF w.visible THEN "hide" ELSE "show", 0, 0, ok) >>
  ELSE <<>>

\* a handler that also shows the window when it gains focus
FocusHandlerCallsShowOnGain(event, w, ok) ==
  IF event.kind = "Focused"
  THEN << Call(IF event.focused THEN "show" ELSE "hide", 0, 0, ok) >>
  ELSE <<>>

\* lines 88-92: the calls the window-event handler makes for one event
FocusHandlerCalls(event, w, ok) ==
  IF event.kind = "Focused" /\ ~event.focused
  THEN << Call("hide", 0, 0, ok) >>
  ELSE <<>>

\* lines 15-16, 60-61: the builder chain
BuilderCalls ==
  << Call("on_tray_icon_event", 0, 0, TRUE),
     Call("plugin_clipboard_manager", 0, 0, TRUE),
     Call("plugin_store", 0, 0, TRUE) >>

\* a setup that carries on without its window (if let Some instead of unwrap)
SetupFatalLogOnly(isDebug, logOk, hasWindow) ==
  IF isDebug /\ ~logOk THEN "log_plugin" ELSE "none"

\* lines 68-77: what stops the setup closure
SetupFatal(isDebug, logOk, hasWindow) ==
  IF isDebug /\ ~logOk THEN "log_plugin"
  ELSE IF ~hasWindow THEN "no_window"
  ELSE "none"

\* a setup closure without the initial hide
SetupCallsNoHide(isMac, isDebug, logOk, hasWindow, wsOk, hideOk) ==
  (IF isMac THEN << Call("set_activation_policy", 0, 0, TRUE) >> ELSE <<>>)
  \o (IF isDebug THEN << Call("plugin_log", 0, 0, logOk) >> ELSE <<>>)
  \o (IF isDebug /\ ~logOk THEN <<>>
      ELSE << Call("get_webview_window", 0, 0, hasWindow) >>
           \o (IF ~hasWindow THEN <<>>
               ELSE << Call("set_visible_on_all_workspaces", 0, 0, wsOk),
                       Call("on_window_event", 0, 0, TRUE) >>))

\* a setup closure that sets the workspace flag last, after the initial hide
SetupCallsWorkspacesLast(isMac, isDebug, logOk, hasWindow, wsOk, hideOk) ==
  (IF isMac THEN << Call("set_activation_policy", 0, 0, TRUE) >> ELSE <<>>)
  \o (IF isDebug THEN << Call("plugin_log", 0, 0, logOk) >> ELSE <<>>)
  \o (IF isDebug /\ ~logOk THEN <<>>
      ELSE << Call("get_webview_window", 0, 0, hasWindow) >>
           \o (IF ~hasWindow THEN <<>>
               ELSE << Call("on_window_event", 0, 0, TRUE),
                       Call("hide", 0, 0, hideOk),
                       Call("set_visible_on_all_workspaces", 0, 0, wsOk) >>))

\* lines 62-98: the calls of the setup closure, in order
SetupCalls(isMac, isDebug, logOk, hasWindow, wsOk, hideOk) ==
  (IF isMac THEN << Call("set_activation_policy", 0, 0, TRUE) >> ELSE <<>>)
  \o (IF isDebug THEN << Call("plugin_log", 0, 0, logOk) >> ELSE <<>>)
  \o (IF isDebug /\ ~logOk THEN <<>>
      ELSE << Call("get_webview_window", 0, 0, hasWindow) >>
           \o (IF ~hasWindow THEN <<>>
               ELSE << Call("set_visible_on_all_workspaces", 0, 0, wsOk),
                       Call("on_window_event", 0, 0, TRUE),
                       Call("hide", 0, 0, hideOk) >>))

----------------------------------------------------------------------------
(* The window, as the calls change it *)

ApplyCall(w, c) ==
  IF ~c.ok THEN w
  ELSE CASE c.cmd = "hide" -> [w EXCEPT !.visible = FALSE, !.focused = FALSE]
         [] c.cmd = "show" -> [w EXCEPT !.visible = TRUE]
         [] c.cmd = "set_focus" -> [w EXCEPT !.focused = w.visible]
         [] c.cmd = "set_position" -> [w EXCEPT !.pos = <<c.x, c.y>>]
         [] c.cmd = "set_visible_on_all_workspaces" -> [w EXCEPT !.allWorkspaces = TRUE]
         [] OTHER -> w

RECURSIVE ApplyCalls(_, _)
ApplyCalls(w, calls) ==
  IF calls = <<>> THEN w
  ELSE ApplyCalls(ApplyCall(w, Head(calls)), Tail(calls))

Cmds(calls) == [i \in 1..Len(calls) |-> calls[i].cmd]

Issued(calls, cmd) == Cardinality({i \in 1..Len(calls) : calls[i].cmd = cmd})

AllOk(calls, cmds) == \A i \in 1..Len(calls) : calls[i].cmd \in cmds => calls[i].ok

\* the last show/hide command among calls, else vs
RECURSIVE VStateAfter(_, _)
VStateAfter(vs, calls) ==
  IF calls = <<>> THEN vs
  ELSE VStateAfter(
         IF Head(calls).cmd = "hide" THEN "Hidden"
         ELSE IF Head(calls).cmd = "show" THEN "Visible"
         ELSE vs,
         Tail(calls))

Mutators == {"hide", "show", "set_focus", "set_position", "set_visible_on_all_workspaces"}

TrayRegistered == Issued(startupLog, "on_tray_icon_event") > 0
FocusRegistered == Issued(startupLog, "on_window_event") > 0

----------------------------------------------------------------------------
(* The state machine *)

InitWith(rects, scales) ==
  /\ pc = "init"
  /\ fatal = "none"
  /\ macos \in BOOLEAN
  /\ debugBuild \in BOOLEAN
  /\ startupLog = <<>>
  /\ \E e \in BOOLEAN, v \in BOOLEAN :
       win = [exists |-> e, visible |-> e /\ v, focused |-> e /\ v,
              pos |-> <<0, 0>>, allWorkspaces |-> FALSE]
  /\ trayRect \in rects
  /\ scale \in scales
  /\ lastEvent = NoEvent
  /\ nEvents = 0
  /\ clicks = 0
  /\ vstate = "Unset"
  /\ hiddenAtStart = FALSE
  /\ faithful = TRUE
  /\ cmdFailed = FALSE
  /\ lastHid = "none"
  /\ prevHid = "none"

Init == InitWith({Rect(10, 10, 30, 30)}, {6, 8})

\* lines 13-16, 60-61: tauri::Builder::default().on_tray_icon_event(..).plugin(..).plugin(..)
Build ==
  /\ pc = "init"
  /\ pc' = "built"
  /\ startupLog' = startupLog \o BuilderCalls
  /\ UNCHANGED <<fatal, macos, debugBuild, win, trayRect, scale, lastEvent, nEvents,
                 clicks, vstate, hiddenAtStart, faithful, cmdFailed, lastHid, prevHid>>

\* lines 62-100: .setup(..) as .run(..) invokes it, and .expect(..) on its error
Setup ==
  /\ pc = "built"
  /\ \E logOk \in BOOLEAN, wsOk \in BOOLEAN, hideOk \in BOOLEAN :
       LET calls == SetupCalls(macos, debugBuild, logOk, win.exists, wsOk, hideOk)
           why == SetupFatal(debugBuild, logOk, win.exists)
           muts == SelectSeq(calls, LAMBDA c : c.cmd \in Mutators)
       IN /\ startupLog' = startupLog \o calls
          /\ fatal' = why
          /\ pc' = IF why = "none" THEN "running" ELSE "aborted"
          /\ win' = ApplyCalls(win, muts)
          /\ vstate' = VStateAfter(vstate, muts)
          /\ hiddenAtStart' = ~win'.visible
          /\ faithful' = (why = "none" /\ AllOk(muts, {"hide", "show"}))
          /\ cmdFailed' = ~AllOk(muts, Mutators)
  /\ UNCHANGED <<macos, debugBuild, trayRect, scale, lastEvent, nEvents, clicks,
                 lastHid, prevHid>>

\* by whom a visible, focused window w was hidden, when calls is one hide that
\* took effect
HidBy(who, w, calls) ==
  IF w.visible /\ w.focused /\ calls = << Call("hide", 0, 0, TRUE) >> THEN who ELSE "none"

\* the answers the window can give to the handler's queries, and the results
\* of its calls: "none" where the handler does not ask
VisAnswers(event, w) ==
  IF IsLeftUp(event) /\ w.exists
  THEN {"err", IF w.visible THEN "true" ELSE "false"}
  ELSE {"none"}

ScaleAnswers(visQ) == IF visQ \in {"false", "err"} THEN {"ok", "err"} ELSE {"none"}

AllTrue == [i \in 1..3 |-> TRUE]

Results(n) == {r \in [1..3 -> BOOLEAN] : \A i \in 1..3 : i > n => r[i]}

\* lines 16-59: one of the first `limit` callbacks: a tray event delivered to the handler
TrayDelivery(limit) ==
  /\ pc = "running"
  /\ TrayRegistered
  /\ nEvents < limit
  /\ \E event \in TrayEvents :
     \E visQ \in VisAnswers(event, win) :
     \E scaleQ \in ScaleAnswers(visQ) :
     \E res \in Results(Len(TrayHandlerCalls(event, win.exists, visQ, scaleQ,
                                             trayRect, scale, AllTrue))) :
       LET resolved == win.exists
           calls == TrayHandlerCalls(event, resolved, visQ, scaleQ, trayRect, scale, res)
       IN /\ win' = ApplyCalls(win, calls)
          /\ lastEvent' =
               [src |-> "tray", kind |-> event.kind, button |-> event.button,
                bstate |-> event.bstate, focused |-> FALSE, resolved |-> resolved,
                visQ |-> visQ, scaleQ |-> scaleQ, calls |-> calls]
          /\ lastHid' = HidBy("click", win, calls)
          /\ clicks' = IF IsLeftUp(event) THEN clicks + 1 ELSE clicks
          /\ vstate' = VStateAfter(vstate, calls)
          /\ faithful' =
               (faithful /\ (IsLeftUp(event) =>
                              resolved /\ visQ # "err" /\ AllOk(calls, {"hide", "show"})))
          /\ cmdFailed' = (cmdFailed \/ ~AllOk(calls, Mutators))
  /\ nEvents' = nEvents + 1
  /\ prevHid' = lastHid
  /\ UNCHANGED <<pc, fatal, macos, debugBuild, startupLog, trayRect, scale, hiddenAtStart>>

OnTrayIconEvent == TrayDelivery(MaxEvents)

\* lines 88-92: one window event delivered to the handler
OnWindowEvent ==
  /\ pc = "running"
  /\ FocusRegistered
  /\ win.exists
  /\ nEvents < MaxEvents
  /\ \E event \in WindowEvents :
     \E ok \in Results(Len(FocusHandlerCalls(event, win, TRUE))) :
       LET lost == event.kind = "Focused" /\ ~event.focused
           w == IF lost THEN [win EXCEPT !.focused = FALSE] ELSE win
           calls == FocusHandlerCalls(event, w, ok[1])
       IN /\ win' = ApplyCalls(w, calls)
          /\ lastEvent' =
               [src |-> "window", kind |-> event.kind, button |-> "None",
                bstate |-> "None", focused |-> event.focused, resolved |-> TRUE,
                visQ |-> "none", scaleQ |-> "none", calls |-> calls]
          /\ lastHid' = HidBy("focus", win, calls)
          /\ clicks' = IF lost THEN 0 ELSE clicks
          /\ vstate' = VStateAfter(vstate, calls)
          /\ faithful' = (faithful /\ AllOk(calls, {"hide", "show"}))
          /\ cmdFailed' = (cmdFailed \/ ~AllOk(calls, Mutators))
  /\ nEvents' = nEvents + 1
  /\ prevHid' = lastHid
  /\ UNCHANGED <<pc, fatal, macos, debugBuild, startupLog, trayRect, scale, hiddenAtStart>>

\* line 24: the window is gone, so get_webview_window("main") answers None from now on
WindowDestroyed ==
  /\ pc = "running"
  /\ win.exists
  /\ win' = [win EXCEPT !.exists = FALSE, !.visible = FALSE, !.focused = FALSE]
  /\ faithful' = FALSE
  /\ UNCHANGED <<pc, fatal, macos, debugBuild, startupLog, trayRect, scale, lastEvent,
                 nEvents, clicks, vstate, hiddenAtStart, cmdFailed, lastHid, prevHid>>

Next == Build \/ Setup \/ OnTrayIconEvent \/ OnWindowEvent \/ WindowDestroyed

Spec == Init /\ [][Next]_vars

\* The position computation on its own: every rectangle and scale factor within
\* the bounds, and the first callback delivered.
InitPos == InitWith(Rects, ScaleFactors) /\ macos /\ ~debugBuild /\ win.exists

FirstTrayEvent == TrayDelivery(1)

NextPos == Build \/ Setup \/ FirstTrayEvent

SpecPos == InitPos /\ [][NextPos]_vars

----------------------------------------------------------------------------
(* Properties *)

Odd(n) == n % 2 = 1

Parity(n) == IF Odd(n) THEN "Visible" ELSE "Hidden"

\* the last callback was a tray event matching Click / Left / Up
LastWasLeftUp ==
  /\ lastEvent.src = "tray"
  /\ lastEvent.kind = "Click"
  /\ lastEvent.button = "Left"
  /\ lastEvent.bstate = "Up"

\* the last callback was a window event Focused(false)
LastWasFocusLost ==
  lastEvent.src = "window" /\ lastEvent.kind = "Focused" /\ ~lastEvent.focused

ShowSequence == <<"set_position", "show", "set_focus">>

\* the first place of cmd in the startup log, 0 when absent
FirstAt(cmd) ==
  IF Issued(startupLog, cmd) = 0 THEN 0
  ELSE CHOOSE i \in 1..Len(startupLog) :
         /\ startupLog[i].cmd = cmd
         /\ \A j \in 1..(i - 1) : startupLog[j].cmd # cmd

C2_Filter ==
  [][(/\ nEvents' # nEvents
      /\ lastEvent'.src = "tray"
      /\ ~(lastEvent'.kind = "Click" /\ lastEvent'.button = "Left"
             /\ lastEvent'.bstate = "Up"))
     => (lastEvent'.calls = <<>> /\ win' = win /\ vstate' = vstate)]_vars

C2_Witness ==
  /\ lastEvent.src = "tray"
  /\ lastEvent.kind = "Click" /\ lastEvent.button = "Left" /\ lastEvent.bstate = "Down"
  /\ win.visible

\* C3: a Focused(false) event makes the handler issue exactly one hide, whether
\* the window was visible or hidden; the visibility state is then Hidden, a
\* hidden window stays hidden, and the window is hidden whenever the hide took
\* effect.
C3_FocusLost ==
  [][(nEvents' # nEvents /\ lastEvent'.src = "window"
        /\ lastEvent'.kind = "Focused" /\ ~lastEvent'.focused)
     => (/\ Cmds(lastEvent'.calls) = <<"hide">>
         /\ vstate' = "Hidden"
         /\ (~win.visible => ~win'.visible)
         /\ (lastEvent'.calls[1].ok => ~win'.visible))]_vars

C3_Witness ==
  /\ LastWasFocusLost
  /\ vstate = "Hidden"
  /\ ~win.visible
  /\ Len(lastEvent.calls) = 1
  /\ ~lastEvent.calls[1].ok

\* C4: a Left/Up click handled while the window answers "not visible" issues
\* set-position, show, set-focus, in that order, and nothing else (no hide).
C4_ShowOrdering ==
  (LastWasLeftUp /\ lastEvent.resolved /\ lastEvent.visQ = "false") =>
    /\ Cmds(lastEvent.calls) = ShowSequence
    /\ Issued(lastEvent.calls, "hide") = 0

C4_Witness ==
  /\ LastWasLeftUp
  /\ lastEvent.visQ = "false"
  /\ Len(lastEvent.calls) = 3
  /\ win.visible /\ win.focused

\* C5: startup issues exactly one hide and no show, set-position or set-focus;
\* no callback has been delivered when it returns, none is delivered without
\* that hide having been issued, and the visibility state it leaves is Hidden
\* (the window itself is hidden when that hide took effect).
C5_Startup ==
  /\ pc = "running" =>
       /\ Issued(startupLog, "hide") = 1
       /\ Issued(startupLog, "show") = 0
       /\ Issued(startupLog, "set_position") = 0
       /\ Issued(startupLog, "set_focus") = 0
       /\ (startupLog[FirstAt("hide")].ok => hiddenAtStart)
  /\ (pc = "running" /\ nEvents = 0) => (lastEvent = NoEvent /\ vstate = "Hidden")
  /\ (nEvents > 0 \/ lastEvent # NoEvent) => Issued(startupLog, "hide") = 1

C5_Witness ==
  /\ pc = "running"
  /\ nEvents = 1
  /\ Issued(startupLog, "hide") = 1
  /\ hiddenAtStart

\* C6 as stated: no tray or focus handler is registered before the initial hide,
\* the workspace flag and (on macOS) the activation policy have been issued.
C6_SetupBeforeRegistration ==
  \A i \in 1..Len(startupLog) :
    startupLog[i].cmd \in {"on_tray_icon_event", "on_window_event"} =>
      /\ \E j \in 1..(i - 1) : startupLog[j].cmd = "hide"
      /\ \E j \in 1..(i - 1) : startupLog[j].cmd = "set_visible_on_all_workspaces"
      /\ macos => \E j \in 1..(i - 1) : startupLog[j].cmd = "set_activation_policy"

\* C6 amended: both handlers are registered before the initial hide (the tray
\* handler on the builder, before setup runs; the focus handler inside setup,
\* after the activation policy and the workspace flag and right before the
\* hide), but no tray or focus callback is delivered until the activation
\* policy (on macOS), the workspace flag and the initial hide have all been
\* issued.
C6_SetupBeforeDelivery ==
  /\ (nEvents > 0 \/ lastEvent # NoEvent) =>
       /\ FirstAt("hide") > 0
       /\ FirstAt("set_visible_on_all_workspaces") > 0
       /\ macos => FirstAt("set_activation_policy") > 0
  /\ pc = "running" =>
       /\ 0 < FirstAt("on_tray_icon_event")
       /\ FirstAt("on_tray_icon_event") < FirstAt("set_visible_on_all_workspaces")
       /\ FirstAt("set_visible_on_all_workspaces") < FirstAt("on_window_event")
       /\ FirstAt("on_window_event") + 1 = FirstAt("hide")
       /\ FirstAt("hide") = Len(startupLog)
       /\ macos => /\ 0 < FirstAt("set_activation_policy")
                   /\ FirstAt("set_activation_policy")
                        < FirstAt("set_visible_on_all_workspaces")

C6_Witness ==
  /\ pc = "running"
  /\ macos
  /\ LastWasFocusLost
  /\ FirstAt("on_window_event") < FirstAt("hide")

\* the last callback was a Left/Up click that took the hidden branch with the
\* window's own scale factor
LastShowedAtScale ==
  /\ LastWasLeftUp
  /\ lastEvent.resolved
  /\ lastEvent.visQ \in {"false", "err"}
  /\ lastEvent.scaleQ = "ok"
  /\ Len(lastEvent.calls) > 0
  /\ lastEvent.calls[1].cmd = "set_position"

\* C7: at scale factor 2.0 the rect (100,50),(20,20) gives position (20, 148);
\* at scale factor 1.5 the rect (10,10),(30,30) gives the physical rect
\* (15,15),(45,45) and position (-163, 68): -162.5 rounds away from zero.
C7_PositionExamples ==
  LastShowedAtScale =>
    /\ (trayRect = Rect(100, 50, 20, 20) /\ scale = 8) =>
         (lastEvent.calls[1].x = 20 /\ lastEvent.calls[1].y = 148)
    /\ (trayRect = Rect(10, 10, 30, 30) /\ scale = 6) =>
         /\ ToPhysicalI32(trayRect.x, scale) = 15
         /\ ToPhysicalI32(trayRect.y, scale) = 15
         /\ ToPhysicalU32(trayRect.w, scale) = 45
         /\ ToPhysicalU32(trayRect.h, scale) = 45
         /\ lastEvent.calls[1].x = -163
         /\ lastEvent.calls[1].y = 68

C7_Witness ==
  /\ LastShowedAtScale
  /\ trayRect = Rect(10, 10, 30, 30)
  /\ scale = 6
  /\ lastEvent.calls[1] = Call("set_position", -163, 68, TRUE)
  /\ win.pos = <<-163, 68>>

\* nearest integer to n/d (d > 0), halves away from zero, written out
Nearest(n, d) ==
  IF n >= 0 THEN (2 * n + d) \div (2 * d) ELSE 0 - ((d - 2 * n) \div (2 * d))

\* C8 as stated: the position issued is (round(x*s + (w*s)/2 - 200),
\* round(y*s + h*s + 8)), rounded once, at the end.  With s = scale/4 the two
\* arguments are (2*x*scale + w*scale - 1600)/8 and (y*scale + h*scale + 32)/4.
C8_RoundedOnce ==
  LastShowedAtScale =>
    /\ lastEvent.calls[1].x
         = Nearest(2 * trayRect.x * scale + trayRect.w * scale - 1600, 8)
    /\ lastEvent.calls[1].y
         = Nearest(trayRect.y * scale + trayRect.h * scale + 32, 4)

\* C8 amended: the scaled position and the scaled size are each rounded to whole
\* physical pixels first (X = round(x*s), Y = round(y*s), W = round(w*s),
\* H = round(h*s), halves away from zero), and the position issued is
\* (round(X + W/2 - 200), Y + H + 8); the last rounding only settles the half
\* pixel of W/2.
C8_RoundedTwice ==
  LastShowedAtScale =>
    LET X == Nearest(trayRect.x * scale, 4)
        Y == Nearest(trayRect.y * scale, 4)
        W == Nearest(trayRect.w * scale, 4)
        H == Nearest(trayRect.h * scale, 4)
    IN /\ lastEvent.calls[1].x = Nearest(2 * X + W - 400, 2)
       /\ lastEvent.calls[1].y = Y + H + 8

C8_Witness ==
  /\ LastShowedAtScale
  /\ trayRect = Rect(1, 1, 1, 1)
  /\ scale = 6
  /\ lastEvent.calls[1].x = -197
  /\ lastEvent.calls[1].y = 12

\* C9: a failed hide, set-position, show or set-focus changes nothing in what
\* the controller does next: startup still reaches the running state, the
\* hidden branch still issues set-position, show and set-focus each once and in
\* order, the visible branch and the focus handler still issue their one hide,
\* and no command is issued twice in one invocation.
C9_FailureSwallowed ==
  /\ cmdFailed => (pc = "running" /\ fatal = "none")
  /\ pc = "aborted" => fatal \in {"log_plugin", "no_window"}
  /\ (LastWasLeftUp /\ lastEvent.resolved) =>
       Cmds(lastEvent.calls)
         = IF lastEvent.visQ = "true" THEN <<"hide">> ELSE ShowSequence
  /\ LastWasFocusLost => Cmds(lastEvent.calls) = <<"hide">>
  /\ \A m \in Mutators : Issued(lastEvent.calls, m) <= 1

C9_Witness ==
  /\ pc = "running"
  /\ ~startupLog[Len(startupLog)].ok
  /\ nEvents = 2
  /\ LastWasLeftUp
  /\ Len(lastEvent.calls) = 3
  /\ ~lastEvent.calls[1].ok
  /\ ~lastEvent.calls[2].ok
  /\ lastEvent.calls[3].cmd = "set_focus"

\* C10: when get_webview_window("main") answers None in setup, startup aborts:
\* no focus handler is registered, no workspace flag is set, no hide is issued,
\* no callback is ever delivered and the running state is never reached.
C10_FatalWithoutWindow ==
  (\E i \in 1..Len(startupLog) : startupLog[i] = Call("get_webview_window", 0, 0, FALSE)) =>
    /\ pc = "aborted"
    /\ fatal = "no_window"
    /\ Issued(startupLog, "on_window_event") = 0
    /\ Issued(startupLog, "set_visible_on_all_workspaces") = 0
    /\ Issued(startupLog, "hide") = 0
    /\ ~win.allWorkspaces
    /\ vstate = "Unset"
    /\ nEvents = 0
    /\ lastEvent = NoEvent

C10_Witness ==
  /\ pc = "aborted"
  /\ fatal = "no_window"
  /\ macos
  /\ Issued(startupLog, "set_activation_policy") = 1
  /\ Issued(startupLog, "get_webview_window") = 1

\* C11: a Left/Up click handled while get_webview_window("main") answers None
\* issues no window command and asks the window nothing, raises no error, and
\* leaves the window and the visibility state as they were.
C11_UnresolvedNoOp ==
  [][(/\ nEvents' # nEvents
      /\ lastEvent'.src = "tray"
      /\ lastEvent'.kind = "Click" /\ lastEvent'.button = "Left"
      /\ lastEvent'.bstate = "Up"
      /\ ~win.exists)
     => (/\ lastEvent'.calls = <<>>
         /\ win' = win
         /\ vstate' = vstate
         /\ pc' = "running"
         /\ fatal' = "none")]_vars

C11_Witness ==
  /\ LastWasLeftUp
  /\ ~lastEvent.resolved
  /\ ~win.exists
  /\ lastEvent.calls = <<>>
  /\ vstate = "Visible"
  /\ pc = "running"

\* C12: when a Left/Up click has hidden a visible, focused window and the next
\* callback is the focus-lost event, the focus handler issues its one hide and
\* nothing else, no error stops the controller, and the window is as the click
\* left it: hidden, unfocused, visibility state Hidden.
C12_IdempotentHide ==
  (prevHid = "click" /\ LastWasFocusLost) =>
    /\ Cmds(lastEvent.calls) = <<"hide">>
    /\ lastHid = "none"
    /\ win.exists => (~win.visible /\ ~win.focused)
    /\ vstate = "Hidden"
    /\ pc = "running"
    /\ fatal = "none"

C12_Witness ==
  /\ prevHid = "click"
  /\ LastWasFocusLost
  /\ win.exists
  /\ ~win.visible
  /\ Len(lastEvent.calls) = 1
  /\ ~lastEvent.calls[1].ok

\* C13: a Left/Up click handled while the window answers "visible" issues one
\* hide and nothing else: no set-position, show or set-focus, and the call
\* carries no position.
C13_HideOnly ==
  (LastWasLeftUp /\ lastEvent.visQ = "true") =>
    /\ Len(lastEvent.calls) = 1
    /\ lastEvent.calls[1].cmd = "hide"
    /\ lastEvent.calls[1].x = 0
    /\ lastEvent.calls[1].y = 0
    /\ \A m \in {"set_position", "show", "set_focus"} : Issued(lastEvent.calls, m) = 0

C13_Witness ==
  /\ LastWasLeftUp
  /\ lastEvent.visQ = "true"
  /\ lastEvent.calls = << Call("hide", 0, 0, TRUE) >>
  /\ lastHid = "click"
  /\ ~win.visible

\* C14: a Focused(true) event issues no window command and leaves the window
\* and the visibility state as they were; a show is issued only by the tray
\* handler for a Left/Up click whose visibility query did not answer "visible",
\* never at startup and never by the window-event handler, and only such a
\* click makes a hidden window visible.
C14_ShowHasOneCause ==
  [][/\ Issued(startupLog', "show") = 0
     /\ (nEvents' # nEvents) =>
          /\ (lastEvent'.src = "window" /\ lastEvent'.kind = "Focused"
                /\ lastEvent'.focused)
               => (lastEvent'.calls = <<>> /\ win' = win /\ vstate' = vstate)
          /\ (Issued(lastEvent'.calls, "show") > 0 \/ (win'.visible /\ ~win.visible))
               => (/\ lastEvent'.src = "tray"
                   /\ lastEvent'.kind = "Click" /\ lastEvent'.button = "Left"
                   /\ lastEvent'.bstate = "Up"
                   /\ lastEvent'.visQ \in {"false", "err"})]_vars

C14_Witness ==
  /\ lastEvent.src = "window"
  /\ lastEvent.kind = "Focused"
  /\ lastEvent.focused
  /\ win.exists
  /\ ~win.visible
  /\ vstate = "Hidden"

\* C15: a Left/Up click whose visibility query fails takes the hidden branch:
\* set-position, show, set-focus, and no hide, also when the window is visible.
C15_QueryFailureShows ==
  (LastWasLeftUp /\ lastEvent.resolved /\ lastEvent.visQ = "err") =>
    /\ Len(lastEvent.calls) = 3
    /\ \A i \in 1..3 : lastEvent.calls[i].cmd = ShowSequence[i]
    /\ Issued(lastEvent.calls, "hide") = 0

C15_Witness ==
  /\ LastWasLeftUp
  /\ lastEvent.visQ = "err"
  /\ Len(lastEvent.calls) = 3
  /\ ~lastEvent.calls[2].ok
  /\ win.visible

\* C16: the branch a Left/Up click takes is decided by what the window answers
\* when the click is handled, and by nothing the controller issued before: it
\* hides exactly when the window is visible and says so, whatever the last
\* show/hide command was.  So after a show that failed the next click shows
\* again, and after a hide that failed the next click hides again.
C16_NoShadowState ==
  [][(/\ nEvents' # nEvents
      /\ lastEvent'.src = "tray"
      /\ lastEvent'.kind = "Click" /\ lastEvent'.button = "Left"
      /\ lastEvent'.bstate = "Up"
      /\ win.exists)
     => (/\ lastEvent'.visQ \in {"err", IF win.visible THEN "true" ELSE "false"}
         /\ Cmds(lastEvent'.calls)
              = IF win.visible /\ lastEvent'.visQ # "err"
                THEN <<"hide">> ELSE ShowSequence)]_vars

\* two clicks from a hidden start; the second finds the window still hidden
\* (the first show failed) although the last command issued was a show
C16_Witness ==
  /\ hiddenAtStart
  /\ nEvents = 2
  /\ clicks = 2
  /\ LastWasLeftUp
  /\ lastEvent.visQ = "false"
  /\ Cmds(lastEvent.calls) = ShowSequence

\* C17: the position issued is the computed target as it is, left of the screen
\* or not: it is negative exactly when X + W/2 < 200 for the physical X and W,
\* the window is moved to exactly that position when the call succeeds, and an
\* icon at physical x = 0 of physical width 40 gives target_x = -180.
C17_NoClamping ==
  LastShowedAtScale =>
    LET X == Nearest(trayRect.x * scale, 4)
        W == Nearest(trayRect.w * scale, 4)
    IN /\ lastEvent.calls[1].x < 0 <=> 2 * X + W < 400
       /\ lastEvent.calls[1].ok => win.pos = <<lastEvent.calls[1].x, lastEvent.calls[1].y>>
       /\ (X = 0 /\ W = 40) => lastEvent.calls[1].x = -180

C17_Witness ==
  /\ LastShowedAtScale
  /\ trayRect = Rect(0, 0, 40, 40)
  /\ scale = 4
  /\ lastEvent.calls[1].ok
  /\ win.pos = <<-180, 48>>

\* C18 as stated, for a run without any failure: a focus-lost event and a
\* Left/Up click, one right after the other on a visible, focused window, leave
\* the window hidden in either order.
C18_HiddenInEitherOrder ==
  /\ (faithful /\ prevHid = "click" /\ LastWasFocusLost /\ lastEvent.calls[1].ok)
       => ~win.visible
  /\ (faithful /\ prevHid = "focus" /\ LastWasLeftUp) => ~win.visible

\* C19: when the scale factor query fails the handler uses 1.0: the position
\* issued is (round(x + w/2 - 200), y + h + 8) for the logical rect, and show
\* and set-focus follow it.
C19_ScaleFallback ==
  (LastWasLeftUp /\ lastEvent.resolved /\ lastEvent.scaleQ = "err") =>
    /\ Cmds(lastEvent.calls) = ShowSequence
    /\ lastEvent.calls[1].x = Nearest(2 * trayRect.x + trayRect.w - 400, 2)
    /\ lastEvent.calls[1].y = trayRect.y + trayRect.h + 8

C19_Witness ==
  /\ LastWasLeftUp
  /\ lastEvent.scaleQ = "err"
  /\ trayRect = Rect(10, 10, 30, 30)
  /\ scale = 6
  /\ lastEvent.calls[1] = Call("set_position", -175, 48, TRUE)
  /\ win.visible

====
